---- MODULE Spec2Model ----
(***************************************************************************)
(* JungleSales: the decay job that counts down time_stamp on the company   *)
(* documents of the "companies" collection, the Company model it calls     *)
(* and the db adapter (MongoDB Stitch: client.login().then(updateOne)).    *)
(*                                                                         *)
(* A document is a function from the names of the fields it has to their   *)
(* values: a field that is undefined in JavaScript is a name that is not   *)
(* in the DOMAIN.  A JavaScript argument is [given |-> TRUE, val |-> v],   *)
(* or Undefined when the caller passed nothing at that position.           *)
(***************************************************************************)
EXTENDS Integers, Sequences, FiniteSets, Bags, TLC

\* ------------------------------------------------------------- constants
SentinelReset == 1000
ResetWindow == 7
DefaultLevel == 5
Unowned == 0

\* ---------------------------------------------------------------- bounds
\* scheduler firings followed in the safety specification
MaxTicks == 2
\* countdown values 0..MaxTime are enumerated beside those around 1000
MaxTime == 2

Names == {"Acme", "Bolt"}
TimeStamps == (0..MaxTime) \cup ((SentinelReset - 1)..(SentinelReset + 2))
Levels == {0, 3}
Owners == {[user |-> 1], [user |-> Unowned, tier |-> "graveyard"]}
\* the scheduler sources of the repository: bin/daily-update.js as it is,
\* its earlier version (the same loop as the router job of part_003), and
\* the router job that upserts
Jobs == {"daily", "dailyEarlier", "router004"}

Undefined == [given |-> FALSE]
Arg(v) == [given |-> TRUE, val |-> v]

Has(doc, f) == f \in DOMAIN doc

\* the documents a store slot can hold when the job starts
DocsAt(i, name) ==
  { [_id |-> i, name |-> name, phone_number |-> "555"] @@ o @@ t @@ l :
      o \in Owners,
      t \in {<< >>} \cup {[time_stamp |-> ts] : ts \in TimeStamps},
      l \in {<< >>} \cup {[level |-> lv] : lv \in Levels} }

VARIABLES
  job,       \* which scheduler source runs
  store,     \* the companies collection, in natural order
  store0,    \* history: the collection when the job started
  fires,     \* scheduler firings so far (saturates at MaxTicks)
  fetching,  \* db.fetch calls whose find has not run at the store yet
  fetched,   \* bag of find results whose callback has not run yet
  pending,   \* bag of db.update requests not yet run at the store
  issued,    \* history: the Company.update calls the loops have made
  overlapped,\* history: a find ran while an earlier run was still in flight
  failed,    \* bag of the requests whose promise rejected (console.log(err))
  op,        \* the repository operation a caller has made, if any
  replies    \* the invocations of that caller's callback, in order

vars == <<job, store, store0, fires, fetching, fetched, pending, issued,
          overlapped, failed, op, replies>>

\* the caller of the repository, alone
caller == <<op, replies>>

\* ------------------------------------------------------------ db adapter
\* $set: every field of data is written over the document's
Merge(doc, data) ==
  [f \in DOMAIN doc \cup DOMAIN data |->
     IF f \in DOMAIN data THEN data[f] ELSE doc[f]]

\* positions of the documents matching {name: crit}
Matches(s, crit) ==
  {i \in 1..Len(s) : crit.given /\ Has(s[i], "name") /\ s[i].name = crit.val}

\* an adapter that hands data to updateOne as the new document instead of
\* under $set: the match is replaced, by the empty document when data is
\* undefined
UpdateOneReplacing(s, req) ==
  LET m == Matches(s, req.crit) IN
  IF m = {} THEN s
  ELSE LET i == CHOOSE k \in m : \A j \in m : k <= j
       IN [s EXCEPT ![i] = IF req.data.given
                             THEN [_id |-> s[i]._id] @@ req.data.val
                             ELSE [_id |-> s[i]._id]]

\* updateOne({name: crit}, {$set: data}, {upsert: false}) at the store: the
\* first match in natural order gets the fields of data; with data undefined
\* there is nothing to set (the promise resolves or rejects, and db.update
\* only logs either way); with no match nothing is created
UpdateOne(s, req) ==
  LET m == Matches(s, req.crit) IN
  IF m = {} \/ ~req.data.given THEN s
  ELSE LET i == CHOOSE k \in m : \A j \in m : k <= j
       IN [s EXCEPT ![i] = Merge(s[i], req.data.val)]

\* exports.update = function(crit, data): the request sent once login resolves
DbUpdate(crit, data) == [crit |-> crit, data |-> data]

\* --------------------------------------------------------- Company model
\* a Company.update that hands both of its arguments on
CompanyUpdatePassing(crit, data) == DbUpdate(crit, data)

\* exports.update = function(crit) { db.update(crit); }: the model takes one
\* parameter, so the second argument of its callers is dropped
CompanyUpdate(crit, data) == DbUpdate(crit, Undefined)

\* ------------------------------------------------------------- decay job
\* the default taken with a falsy test, if(!level), so that level 0 counts
\* as absent
DailyDataFalsyLevel(doc) ==
  LET level == IF Has(doc, "level") /\ doc.level # 0
                 THEN doc.level ELSE DefaultLevel
      t == doc.time_stamp - 1
      time == IF t = SentinelReset THEN ResetWindow ELSE t
  IN IF time <= 0
       THEN [tier |-> "graveyard", user |-> Unowned, level |-> level]
       ELSE [time_stamp |-> time, level |-> level]

\* the reset tested before the decrement
DailyDataResetFirst(doc) ==
  LET level == IF Has(doc, "level") THEN doc.level ELSE DefaultLevel
      t == IF doc.time_stamp = SentinelReset
             THEN ResetWindow ELSE doc.time_stamp - 1
  IN IF t <= 0
       THEN [tier |-> "graveyard", user |-> Unowned, level |-> level]
       ELSE [time_stamp |-> t, level |-> level]

\* the graveyard branch writing the decremented countdown as well
DailyDataCountsOn(doc) ==
  LET level == IF Has(doc, "level") THEN doc.level ELSE DefaultLevel
      t == doc.time_stamp - 1
      time == IF t = SentinelReset THEN ResetWindow ELSE t
  IN IF time <= 0
       THEN [tier |-> "graveyard", user |-> Unowned, level |-> level,
             time_stamp |-> time]
       ELSE [time_stamp |-> time, level |-> level]

\* ownership released in the decrement branch too
DailyDataReleases(doc) ==
  LET level == IF Has(doc, "level") THEN doc.level ELSE DefaultLevel
      t == doc.time_stamp - 1
      time == IF t = SentinelReset THEN ResetWindow ELSE t
  IN IF time <= 0
       THEN [tier |-> "graveyard", user |-> Unowned, level |-> level]
       ELSE [time_stamp |-> time, level |-> level, user |-> Unowned]

\* bin/daily-update.js, lines 13-25: the data built for a document whose
\* time_stamp is defined
DailyData(doc) ==
  LET level == IF Has(doc, "level") THEN doc.level ELSE DefaultLevel
      t == doc.time_stamp - 1
      time == IF t = SentinelReset THEN ResetWindow ELSE t
  IN IF time <= 0
       THEN [tier |-> "graveyard", user |-> Unowned, level |-> level]
       ELSE [time_stamp |-> time, level |-> level]

\* bin/daily-update.js, lines 43-47 (and the router job of part_003)
EarlierData(doc) ==
  LET t == doc.time_stamp - 1
      time == IF t = SentinelReset THEN ResetWindow ELSE t
  IN [time_stamp |-> time]

\* the router job that upserts, lines 30-39
RouterData(doc) ==
  LET time == doc.time_stamp - 1
  IN IF time = SentinelReset THEN [time_stamp |-> ResetWindow]
     ELSE IF time = 0 THEN [user |-> Unowned]
     ELSE [time_stamp |-> time]

JobData(j, doc) ==
  CASE j = "daily" -> DailyData(doc)
    [] j = "dailyEarlier" -> EarlierData(doc)
    [] j = "router004" -> RouterData(doc)

\* if(time != undefined)
Enrolled(doc) == Has(doc, "time_stamp")

\* the else branch of the router job calls Company.upsert, which the Company
\* model does not export: the call throws a TypeError inside db.fetch's
\* then(), its catch logs it, and the rest of the loop is not run
Throws(j, doc) == j = "router004" /\ ~Enrolled(doc)

\* the positions the for-in loop gets through before it ends or throws
Reached(j, docs) ==
  {i \in 1..Len(docs) : \A k \in 1..(i - 1) : ~Throws(j, docs[k])}

\* a loop without the time != undefined test, enrolling the documents that
\* have no time_stamp the way the else branch of the router job means to
LoopCallsUnguarded(j, docs) ==
  { [pos |-> i, doc |-> docs[i], crit |-> Arg(docs[i].name),
     data |-> Arg(IF Enrolled(docs[i]) THEN JobData(j, docs[i])
                  ELSE [time_stamp |-> ResetWindow])] :
      i \in 1..Len(docs) }

\* the Company.update(name, data) calls of one run of the loop
LoopCalls(j, docs) ==
  { [pos |-> i, doc |-> docs[i], crit |-> Arg(docs[i].name),
     data |-> Arg(JobData(j, docs[i]))] :
      i \in {k \in Reached(j, docs) : Enrolled(docs[k])} }

RECURSIVE RequestBag(_)
RequestBag(calls) ==
  IF calls = {} THEN EmptyBag
  ELSE LET c == CHOOSE x \in calls : TRUE
       IN SetToBag({CompanyUpdate(c.crit, c.data)}) (+) RequestBag(calls \ {c})

\* ----------------------------------------------------------------- state
Init ==
  /\ job \in Jobs
  /\ \E n \in Names :
       store \in {<<a, b>> : a \in DocsAt(1, "Acme"), b \in DocsAt(2, n)}
  /\ store0 = store
  /\ fires = 0
  /\ fetching = 0
  /\ fetched = EmptyBag
  /\ pending = EmptyBag
  /\ issued = {}
  /\ overlapped = FALSE
  /\ failed = EmptyBag
  /\ op = [kind |-> "idle"]
  /\ replies = << >>

\* a scheduler holding a run token: no firing while a run is in flight
FireExclusive ==
  /\ fires < MaxTicks
  /\ fetching = 0 /\ fetched = EmptyBag /\ pending = EmptyBag
  /\ fires' = fires + 1
  /\ fetching' = fetching + 1
  /\ UNCHANGED <<job, store, store0, fetched, pending, issued>>
  /\ UNCHANGED <<overlapped, failed, caller>>

\* the scheduler fires (the script starts): Company.all -> db.fetch({}, cb)
Fire ==
  /\ fires < MaxTicks
  /\ fires' = fires + 1
  /\ fetching' = fetching + 1
  /\ UNCHANGED <<job, store, store0, fetched, pending, issued>>
  /\ UNCHANGED <<overlapped, failed, caller>>

\* db.fetch: login resolved, find({}) runs at the store
FetchFind ==
  /\ fetching > 0
  /\ fetching' = fetching - 1
  /\ fetched' = fetched (+) SetToBag({store})
  /\ overlapped' = (overlapped \/ pending # EmptyBag \/ fetched # EmptyBag)
  /\ UNCHANGED <<job, store, store0, fires, pending, issued>>
  /\ UNCHANGED <<failed, caller>>

\* the callback of Company.all: the whole for-in loop over the find result
Callback ==
  \E docs \in BagToSet(fetched) :
    /\ fetched' = fetched (-) SetToBag({docs})
    /\ pending' = pending (+) RequestBag(LoopCalls(job, docs))
    /\ issued' = issued \cup LoopCalls(job, docs)
    /\ UNCHANGED <<job, store, store0, fires, fetching>>
    /\ UNCHANGED <<overlapped, failed, caller>>

\* db.update: login resolved, updateOne runs at the store
ApplyUpdate ==
  \E req \in BagToSet(pending) :
    /\ pending' = pending (-) SetToBag({req})
    /\ store' = UpdateOne(store, req)
    /\ UNCHANGED <<job, store0, fires, fetching, fetched, issued>>
    /\ UNCHANGED <<overlapped, failed, caller>>

Next == Fire \/ FetchFind \/ Callback \/ ApplyUpdate

Spec == Init /\ [][Next]_vars

\* nothing of any tick is in flight
Quiet == fetching = 0 /\ fetched = EmptyBag /\ pending = EmptyBag

\* the daily schedule: a firing once the previous run and its updates are
\* over, again and again (fires only counts up to MaxTicks)
FireDaily ==
  /\ Quiet
  /\ fires' = IF fires < MaxTicks THEN fires + 1 ELSE fires
  /\ fetching' = 1
  /\ UNCHANGED <<job, store, store0, fetched, pending, issued>>
  /\ UNCHANGED <<overlapped, failed, caller>>

LiveNext == FireDaily \/ FetchFind \/ Callback \/ ApplyUpdate

LiveSpec ==
  /\ Init /\ [][LiveNext]_vars
  /\ WF_vars(FireDaily) /\ WF_vars(FetchFind)
  /\ WF_vars(Callback) /\ WF_vars(ApplyUpdate)

\* ------------------------------------------------------- store failures
\* a rejection that takes the rest of the batch with it
AfterRejectionAborting(p, req) == EmptyBag

\* what is left in flight when the promise of one request rejects: the catch
\* of db.update logs the error, and the other requests are promises of
\* their own
AfterRejection(p, req) == p (-) SetToBag({req})

\* db.update: login or updateOne rejects
FailUpdate ==
  \E req \in BagToSet(pending) :
    /\ pending' = AfterRejection(pending, req)
    /\ failed' = failed (+) SetToBag({req})
    /\ UNCHANGED <<job, store, store0, fires, fetching, fetched, issued>>
    /\ UNCHANGED <<overlapped, caller>>

\* db.fetch: login or find rejects; the catch logs and cb is not called
FailFetch ==
  /\ fetching > 0
  /\ fetching' = fetching - 1
  /\ UNCHANGED <<job, store, store0, fires, fetched, pending, issued>>
  /\ UNCHANGED <<overlapped, failed, caller>>

FaultInit == Init /\ job = "daily"

FaultNext == Fire \/ FetchFind \/ Callback \/ ApplyUpdate \/ FailUpdate \/ FailFetch

FaultSpec == FaultInit /\ [][FaultNext]_vars

\* ------------------------------------------------ repository and callers
\* JavaScript values handed to callbacks
Null == [kind |-> "null"]
NoValue == [kind |-> "undefined"]
ErrorValue == [kind |-> "error"]
DocsValue(ds) == [kind |-> "docs", val |-> ds]
DocValue(d) == [kind |-> "doc", val |-> d]

\* if (err): an array, even an empty one, is truthy
Truthy(v) == v.kind \notin {"null", "undefined"}

\* what db.js exports: connect, fetch, update, upsert (and no save)
DbExports == {"connect", "fetch", "update", "upsert"}

\* find(crit) at the store: equality on the fields of crit, {} matches all
Find(s, crit) ==
  SelectSeq(s, LAMBDA d : \A f \in DOMAIN crit : Has(d, f) /\ d[f] = crit[f])

\* db.fetch, on success: return cb(docs), one argument
FetchArgs(docs) == <<DocsValue(docs)>>

\* docs[0]
FirstOf(ds) == IF Len(ds) > 0 THEN DocValue(ds[1]) ELSE NoValue

\* the callback Company.get hands to db.fetch, function(err, docs): the
\* invocations of the caller's cb it makes (docs[0] of an undefined docs
\* throws, and the catch of db.fetch logs it)
GetCallback(args) ==
  IF Truthy(args[1]) THEN << <<args[1]>> >>
  ELSE IF Len(args) >= 2 /\ args[2].kind = "docs"
         THEN << <<Null, FirstOf(args[2].val)>> >>
         ELSE << >>

\* the callback Company.all hands to db.fetch, function(docs): cb(docs)
AllCallback(args) == << <<args[1]>> >>

\* the invocations of the caller's callback for one result of db.fetch
\* (allByUser hands the caller's cb to db.fetch as it is)
CallerInvocations(kind, args) ==
  CASE kind = "get" -> GetCallback(args)
    [] kind = "all" -> AllCallback(args)
    [] kind = "allByUser" -> <<args>>

Idle == op.kind = "idle"

\* GET /companies/:id: Company.get(id, cb) -> db.fetch({id: id}, ...)
RepoGet(id) ==
  /\ Idle
  /\ op' = [kind |-> "get", crit |-> [id |-> id], phase |-> "fetching"]
  /\ UNCHANGED <<job, store, store0, fires, fetching, fetched, pending,
                 issued, overlapped, failed, replies>>

\* GET /: Company.all(cb) -> db.fetch({}, ...)
RepoAll ==
  /\ Idle
  /\ op' = [kind |-> "all", crit |-> << >>, phase |-> "fetching"]
  /\ UNCHANGED <<job, store, store0, fires, fetching, fetched, pending,
                 issued, overlapped, failed, replies>>

\* Company.allByUser(user, cb) -> db.fetch({user: user}, cb)
RepoAllByUser(user) ==
  /\ Idle
  /\ op' = [kind |-> "allByUser", crit |-> [user |-> user],
            phase |-> "fetching"]
  /\ UNCHANGED <<job, store, store0, fires, fetching, fetched, pending,
                 issued, overlapped, failed, replies>>

\* db.fetch of the caller's operation: find resolves, cb(docs) runs
RepoFind ==
  /\ ~Idle /\ op.kind \in {"get", "all", "allByUser"}
  /\ op.phase = "fetching"
  /\ op' = [op EXCEPT !.phase = "found"]
  /\ replies' = replies \o
       CallerInvocations(op.kind, FetchArgs(Find(store, op.crit)))
  /\ UNCHANGED <<job, store, store0, fires, fetching, fetched, pending,
                 issued, overlapped, failed>>

\* db.fetch of the caller's operation: login or find rejects, the catch
\* logs the error and cb is not called
RepoFindFail ==
  /\ ~Idle /\ op.kind \in {"get", "all", "allByUser"}
  /\ op.phase = "fetching"
  /\ op' = [op EXCEPT !.phase = "failed"]
  /\ UNCHANGED <<job, store, store0, fires, fetching, fetched, pending,
                 issued, overlapped, failed, replies>>

\* Company.update(name, data) by a caller
RepoUpdate(name, data) ==
  /\ Idle
  /\ op' = [kind |-> "update", name |-> name, data |-> data]
  /\ pending' = pending (+) SetToBag({CompanyUpdate(Arg(name), Arg(data))})
  /\ UNCHANGED <<job, store, store0, fires, fetching, fetched, issued,
                 overlapped, failed, replies>>

\* POST /companies: Company.create(user, name, cb) builds the company and
\* calls db.save(company, cb); db exports no save, so the call throws a
\* TypeError: nothing is written and no callback runs
RepoCreate(user, name) ==
  /\ Idle
  /\ "save" \notin DbExports
  /\ op' = [kind |-> "create", user |-> user, name |-> name,
            phase |-> "threw"]
  /\ UNCHANGED <<job, store, store0, fires, fetching, fetched, pending,
                 issued, overlapped, failed, replies>>

\* what callers ask for
Ids == {1, 2, 3}
Users == {Unowned, 1}
CallerNames == Names \cup {"Zed"}
CallerData == {[time_stamp |-> ResetWindow], [level |-> 1, tier |-> "gold"]}

RepoInit == Init /\ job = "daily"

RepoNext ==
  \/ \E id \in Ids : RepoGet(id)
  \/ RepoAll
  \/ \E u \in Users : RepoAllByUser(u)
  \/ RepoFind
  \/ RepoFindFail
  \/ \E n \in CallerNames, d \in CallerData : RepoUpdate(n, d)
  \/ ApplyUpdate
  \/ \E u \in Users, n \in CallerNames : RepoCreate(u, n)

RepoSpec == RepoInit /\ [][RepoNext]_vars

\* ---------------------------------------------------------------- claims
Slots == 1..Len(store0)

\* the first run is over: fired once, its loop has run, its updates are applied
OneTickDone == fires = 1 /\ Quiet

\* no other document of the collection has the name of the one at i
UniqueName(i) == \A j \in Slots : j # i => store0[j].name # store0[i].name

LevelOr5(doc) == IF Has(doc, "level") THEN doc.level ELSE DefaultLevel

\* C1: after one tick of the decay job, a record whose time_stamp is defined
\* with time_stamp - 1 > 0 and time_stamp - 1 # 1000 is stored with time_stamp
\* lowered by exactly 1 and its level unchanged.
C1_DecrementStored ==
  (job = "daily" /\ OneTickDone) =>
    \A i \in Slots :
      (/\ UniqueName(i) /\ Enrolled(store0[i])
       /\ store0[i].time_stamp - 1 > 0
       /\ store0[i].time_stamp - 1 # SentinelReset)
      => /\ Has(store[i], "time_stamp")
         /\ store[i].time_stamp = store0[i].time_stamp - 1
         /\ Has(store0[i], "level") =>
              (Has(store[i], "level") /\ store[i].level = store0[i].level)

\* C2: after one tick of the decay job, a record whose time_stamp is defined
\* with time_stamp - 1 <= 0 is stored with tier "graveyard", user 0 and
\* time_stamp 0, its level kept.
C2_GraveyardStored ==
  (job = "daily" /\ OneTickDone) =>
    \A i \in Slots :
      (UniqueName(i) /\ Enrolled(store0[i]) /\ store0[i].time_stamp - 1 <= 0)
      => /\ Has(store[i], "tier") /\ store[i].tier = "graveyard"
         /\ store[i].user = Unowned
         /\ Has(store[i], "time_stamp") /\ store[i].time_stamp = 0
         /\ Has(store0[i], "level") =>
              (Has(store[i], "level") /\ store[i].level = store0[i].level)

\* C3: for a record whose time_stamp is undefined, no update or upsert call
\* is issued by any tick, and the stored record stays as it was, after any
\* number of ticks.
C3_UnenrolledUntouched ==
  \A i \in Slots :
    ~Enrolled(store0[i]) =>
      /\ store[i] = store0[i]
      /\ \A c \in issued : c.doc._id # store0[i]._id
      /\ \A r \in BagToSet(pending) : Matches(store, r.crit) # {i}

C3_Witness ==
  /\ fires = MaxTicks /\ Quiet /\ issued # {}
  /\ \E i \in Slots : ~Enrolled(store0[i]) /\ UniqueName(i)

\* C4: in every tick of the decay job, the level in the data written for a
\* record is 5 exactly when the record has no level, and the record's own
\* level otherwise (level 0 included), in the decrement, the reset and the
\* graveyard branch alike.
C4_LevelDefault ==
  job = "daily" =>
    \A c \in issued :
      /\ Has(c.data.val, "level")
      /\ Has(c.doc, "level") => c.data.val.level = c.doc.level
      /\ ~Has(c.doc, "level") => c.data.val.level = DefaultLevel

C4_Witness ==
  /\ job = "daily"
  /\ \E a, b \in issued :
       /\ ~Has(a.doc, "level") /\ Has(a.data.val, "tier")
       /\ Has(b.doc, "level") /\ b.doc.level = 0
       /\ b.doc.time_stamp = SentinelReset + 1

\* C5: after one tick of the decay job, a record with time_stamp 1001 is
\* stored with time_stamp 7 and its level (5 when it had none), its tier and
\* user as they were.
C5_ResetStored ==
  (job = "daily" /\ OneTickDone) =>
    \A i \in Slots :
      (/\ UniqueName(i) /\ Enrolled(store0[i])
       /\ store0[i].time_stamp - 1 = SentinelReset)
      => /\ Has(store[i], "time_stamp") /\ store[i].time_stamp = ResetWindow
         /\ Has(store[i], "level") /\ store[i].level = LevelOr5(store0[i])
         /\ store[i].user = store0[i].user
         /\ Has(store[i], "tier") = Has(store0[i], "tier")

\* C6 as stated: for a record with time_stamp = 1000 the transition of the
\* decay job is the reset to time_stamp 7, level preserved.
C6_ResetAt1000 ==
  job = "daily" =>
    \A c \in issued :
      c.doc.time_stamp = SentinelReset =>
        c.data.val = [time_stamp |-> ResetWindow, level |-> LevelOr5(c.doc)]

\* C6 amended: the transition of the decay job is the reset to time_stamp 7,
\* level preserved, for a record whose time_stamp - 1 = 1000; a record with
\* time_stamp = 1000 is counted down to 999.
C6_ResetAfterDecrement ==
  job = "daily" =>
    \A c \in issued :
      /\ c.doc.time_stamp - 1 = SentinelReset =>
           c.data.val = [time_stamp |-> ResetWindow, level |-> LevelOr5(c.doc)]
      /\ c.doc.time_stamp = SentinelReset =>
           c.data.val = [time_stamp |-> SentinelReset - 1,
                         level |-> LevelOr5(c.doc)]

C6_Witness ==
  /\ job = "daily"
  /\ \E a, b \in issued :
       /\ a.doc.time_stamp = SentinelReset + 1 /\ Has(a.doc, "level")
       /\ b.doc.time_stamp = SentinelReset

\* a record as the graveyard branch means to leave it
Terminal(doc) ==
  /\ Has(doc, "tier") /\ doc.tier = "graveyard"
  /\ Enrolled(doc) /\ doc.time_stamp = 0

\* C7: a tick on an already graveyarded record (time_stamp 0, tier
\* "graveyard") writes the terminal fields again (tier "graveyard", user 0,
\* the record's level, no time_stamp below 0), and the stored record is the
\* one before, after any number of ticks.
C7_TerminalIdempotent ==
  \A i \in Slots :
    Terminal(store0[i]) =>
      /\ store[i] = store0[i]
      /\ job = "daily" =>
           \A c \in issued :
             c.doc._id = store0[i]._id =>
               /\ DOMAIN c.data.val = {"tier", "user", "level"}
               /\ c.data.val.tier = "graveyard"
               /\ c.data.val.user = Unowned
               /\ Has(c.doc, "level") => c.data.val.level = c.doc.level

C7_Witness ==
  /\ job = "daily" /\ fires = MaxTicks /\ Quiet
  /\ \E i \in Slots :
       /\ Terminal(store0[i]) /\ UniqueName(i) /\ Has(store0[i], "level")
       /\ \E c \in issued : c.doc._id = store0[i]._id

\* a record in the graveyard as the decay job leaves it
Graveyarded(doc) ==
  /\ Has(doc, "tier") /\ doc.tier = "graveyard"
  /\ doc.user = Unowned
  /\ Enrolled(doc) /\ doc.time_stamp - 1 <= 0

\* C8: no step of the decay job changes the tier, the user or the time_stamp
\* of a record that is in the graveyard, and no step removes a record.
C8_GraveyardTerminal ==
  [][/\ Len(store') = Len(store)
     /\ \A i \in 1..Len(store) :
          /\ store'[i]._id = store[i]._id
          /\ Graveyarded(store[i]) =>
               /\ Graveyarded(store'[i])
               /\ store'[i].time_stamp = store[i].time_stamp]_vars

C8_Witness ==
  /\ fires = MaxTicks /\ Quiet
  /\ \E i \in Slots :
       /\ Graveyarded(store[i]) /\ store[i].time_stamp = 1
       /\ \E c \in issued : c.doc._id = store[i]._id

\* C9: under repeated ticks, every record whose time_stamp is defined
\* eventually has tier "graveyard" and user 0.
C9_EventuallyGraveyard ==
  \A i \in {1, 2} :
    (job = "daily" /\ UniqueName(i) /\ Enrolled(store0[i])) =>
      <>(/\ Has(store[i], "tier") /\ store[i].tier = "graveyard"
         /\ store[i].user = Unowned)

\* C10: in every state reached by any number of ticks, a stored time_stamp
\* is absent or a non-negative integer (1000 included): the decay job never
\* stores a time_stamp below 0.
C10_CountdownNonNegative ==
  \A i \in 1..Len(store) :
    Has(store[i], "time_stamp") => store[i].time_stamp >= 0

C10_Witness ==
  /\ job = "dailyEarlier" /\ fires = MaxTicks /\ Quiet
  /\ \E c \in issued : c.doc.time_stamp = 0 /\ c.data.val.time_stamp < 0

\* C11: after a completed tick each record with a defined time_stamp holds
\* exactly the transition of its own previous state, duplicate names
\* included, and no record receives another record's computed fields.
C11_OwnTransition ==
  (job = "daily" /\ OneTickDone) =>
    \A i \in Slots :
      /\ Enrolled(store0[i]) =>
           store[i] = Merge(store0[i], DailyData(store0[i]))
      /\ ~Enrolled(store0[i]) => store[i] = store0[i]

\* C13: when the scheduler has fired twice, one run after the other, a
\* record with time_stamp t (t - 2 > 0, no 1000 boundary crossed) ends with
\* time_stamp t - 2.
C13_DoubleDecrement ==
  (job = "daily" /\ fires = 2 /\ Quiet /\ ~overlapped) =>
    \A i \in Slots :
      (/\ UniqueName(i) /\ Enrolled(store0[i])
       /\ store0[i].time_stamp - 2 > 0
       /\ store0[i].time_stamp - 1 # SentinelReset
       /\ store0[i].time_stamp - 2 # SentinelReset)
      => /\ Has(store[i], "time_stamp")
         /\ store[i].time_stamp = store0[i].time_stamp - 2

\* the documents of the collection at the start that are enrolled and named n
EnrolledNamed(n) ==
  {i \in Slots : Enrolled(store0[i]) /\ store0[i].name = n}

C15_FailureIsolated ==
  [][/\ failed' # failed =>
          /\ \E req \in BagToSet(pending) :
               /\ failed' = failed (+) SetToBag({req})
               /\ pending' = pending (-) SetToBag({req})
          /\ UNCHANGED <<store, fires, fetching, fetched, issued>>
     /\ \A r \in BagToSet(failed') \cup BagToSet(pending') :
          CopiesIn(r, failed') + CopiesIn(r, pending')
            <= fires' * Cardinality(EnrolledNamed(r.crit.val))]_vars

C15_Witness ==
  /\ fires = 1 /\ Quiet /\ BagCardinality(failed) = 1
  /\ \A i \in Slots : Enrolled(store0[i]) /\ UniqueName(i)

\* C19: in no step, whatever the interleaving of runs and updates, does the
\* stored time_stamp of a record increase.
C19_NeverIncreases ==
  [][\A i \in 1..Len(store) :
       (Has(store[i], "time_stamp") /\ Has(store'[i], "time_stamp")) =>
         store'[i].time_stamp <= store[i].time_stamp]_vars

C19_Witness ==
  /\ overlapped /\ fires = MaxTicks /\ Quiet
  /\ \E c \in issued : c.doc.time_stamp > 1

\* C20: no step of the decay job creates or deletes a record or changes a
\* name, a phone_number or an id; user and tier change, and are in the data
\* of an update, only for a record whose time_stamp - 1 <= 0.
C20_TickFrame ==
  [][/\ Len(store') = Len(store)
     /\ \A i \in 1..Len(store) :
          /\ store'[i]._id = store[i]._id
          /\ store'[i].name = store[i].name
          /\ store'[i].phone_number = store[i].phone_number
          /\ (\/ store'[i].user # store[i].user
              \/ Has(store'[i], "tier") # Has(store[i], "tier"))
             => (Enrolled(store[i]) /\ store[i].time_stamp - 1 <= 0)
     /\ \A c \in issued' :
          /\ DOMAIN c.data.val \cap {"_id", "name", "phone_number"} = {}
          /\ (Has(c.data.val, "user") \/ Has(c.data.val, "tier"))
             => c.doc.time_stamp - 1 <= 0]_vars

C20_Witness ==
  /\ fires = MaxTicks /\ Quiet /\ job = "daily"
  /\ \E a, b \in issued :
       /\ Has(a.data.val, "user") /\ Has(a.data.val, "tier")
       /\ ~Has(b.data.val, "user") /\ ~Has(b.data.val, "tier")

\* C12: once Company.update(name, partialFields) has completed on a store
\* with one record of that name, that record has every field of
\* partialFields set to the given value and its other fields as before, the
\* other records are unchanged, and nothing is created when none matches.
C12_UpdateMerges ==
  (op.kind = "update" /\ pending = EmptyBag) =>
    LET m == {i \in Slots : store0[i].name = op.name} IN
    /\ Len(store) = Len(store0)
    /\ Cardinality(m) = 1 =>
         \A i \in Slots :
           store[i] = IF i \in m THEN Merge(store0[i], op.data)
                      ELSE store0[i]
    /\ m = {} => store = store0

\* C16: when the fetch of get, all or allByUser fails, the caller's callback
\* is invoked exactly once, with the error as its first argument.
C16_ErrorFirst ==
  (op.kind \in {"get", "all", "allByUser"} /\ op.phase = "failed") =>
    /\ Len(replies) = 1
    /\ replies[1][1] = ErrorValue

\* C17: create, called as the HTTP route calls it, adds exactly one record,
\* which has only user, name and phone_number set, user and name being the
\* given values, and the caller's callback is invoked.
C17_CreateAdds ==
  op.kind = "create" =>
    /\ Len(store) = Len(store0) + 1
    /\ \A i \in Slots : store[i] = store0[i]
    /\ LET new == store[Len(store)] IN
       /\ DOMAIN new \subseteq {"_id", "user", "name", "phone_number"}
       /\ new.user = op.user /\ new.name = op.name
    /\ Len(replies) = 1

\* C18: when the fetch of get(id) succeeds, the caller receives no error and
\* the first record matching the id, or no error and no record when none
\* matches.
C18_GetFirstMatch ==
  (op.kind = "get" /\ op.phase = "found") =>
    LET m == {i \in 1..Len(store) : store[i]._id = op.crit.id} IN
    /\ Len(replies) = 1
    /\ Len(replies[1]) = 2
    /\ replies[1][1] = Null
    /\ replies[1][2] = IF m = {} THEN NoValue
                       ELSE DocValue(store[CHOOSE k \in m : \A j \in m : k <= j])

====
